---- MODULE Spec2Model ----
(***************************************************************************)
(* Model of the QR view (src/src/pages/Home.tsx): the text input, the      *)
(* debounced text, the generation flag, the rendered QR area, and the      *)
(* copy / download export actions.                                         *)
(*                                                                         *)
(* A string is a sequence of one-character strings.  Time is counted in    *)
(* milliseconds on the pending timers only (remaining delay).              *)
(*                                                                         *)
(* The hook '@/hooks/useDebounce' is imported by Home.tsx but its file is  *)
(* not part of the sources at hand; UseDebounce* below follow the          *)
(* documented contract of the debounce stage.                              *)
(***************************************************************************)
EXTENDS Integers, Sequences, FiniteSets, TLC

\* ------------------------------------------------------------------ bounds
MaxLen == 1
MaxExports == 2
Quantum == 400

\* ------------------------------------------------------- program constants
DebounceDelay == 800
GenerationDelay == 200
QRSize == 200

\* ---------------------------------------------------------------- strings
Chars == {"a", " "}
Whitespace == {" "}
EmptyStr == << >>

Strings == UNION {[1..n -> Chars] : n \in 0..MaxLen}

\* JavaScript truthiness of a string: only '' is falsy.
Truthy(s) == Len(s) > 0

RECURSIVE TrimStart(_)
TrimStart(s) ==
  IF s # << >> /\ Head(s) \in Whitespace THEN TrimStart(Tail(s)) ELSE s

RECURSIVE TrimEnd(_)
TrimEnd(s) ==
  IF s # << >> /\ s[Len(s)] \in Whitespace
    THEN TrimEnd(SubSeq(s, 1, Len(s) - 1))
    ELSE s

\* String.prototype.trim
Trim(s) == TrimEnd(TrimStart(s))

\* ------------------------------------------------------------------ state
VARIABLES
  inputText,      \* useState('') of the textarea
  isGenerating,   \* useState(false), the generation flag
  debouncedText,  \* value returned by useDebounce(inputText, 800)
  timers,         \* pending setTimeout calls: [kind, value, left]
  pubs,           \* publications of the debounce stage since the last
                  \* change of inputText (history)
  typed,          \* last text the user asked for, by typing or clearing
                  \* (history)
  inputBy,        \* which handler asked for it (history)
  superseded,     \* the last change of inputText cancelled a pending
                  \* debounce timeout (history)
  view,           \* what the last render committed
  clipboard,      \* environment: state of the clipboard capability
  jobs,           \* copy operations that passed the guard, in call order
  toasts,         \* number of toast() calls per notice
  downloads,      \* anchor clicks, in order
  downloadClicks  \* clicks on the download button (history)

vars == << inputText, isGenerating, debouncedText, timers, pubs, typed, inputBy,
           superseded, view, clipboard, jobs, toasts, downloads, downloadClicks >>

NoCanvas == [none |-> TRUE]

NoticeEnterContent == "enterContentFirst"
NoticeCopied == "copied"
NoticeCopyFailed == "copyFailedSaveManually"
Notices == {NoticeEnterContent, NoticeCopied, NoticeCopyFailed}

ClipboardStates == {"ok", "denied", "unsupported"}

\* ----------------------------------------------------------------- render
\* <QRCode value size level includeMargin bgColor fgColor/>: the raster is
\* a function of exactly these parameters.
QRCode(value) ==
  [value |-> value, size |-> QRSize, level |-> "H", includeMargin |-> TRUE,
   bgColor |-> "#ffffff", fgColor |-> "#000000"]

\* Variant: the display conditions test debouncedText without trim().
Render_NoTrim(it, gen, dt) ==
  [clearButton   |-> Truthy(it),
   placeholder   |-> ~Truthy(dt),
   spinner       |-> Truthy(dt) /\ gen,
   canvas        |-> IF Truthy(dt) /\ ~gen THEN QRCode(dt) ELSE NoCanvas,
   copyArea      |-> Truthy(dt),
   exportButtons |-> Truthy(dt)]

\* Variant: the QR code is drawn as an <svg>, so no <canvas> is in the DOM.
Render_Svg(it, gen, dt) ==
  [clearButton   |-> Truthy(it),
   placeholder   |-> ~Truthy(Trim(dt)),
   spinner       |-> Truthy(Trim(dt)) /\ gen,
   canvas        |-> NoCanvas,
   copyArea      |-> Truthy(Trim(dt)),
   exportButtons |-> Truthy(Trim(dt))]

\* JSX of the component: clear button, QR display area, export buttons.
Render(it, gen, dt) ==
  [clearButton   |-> Truthy(it),
   placeholder   |-> ~Truthy(Trim(dt)),
   spinner       |-> Truthy(Trim(dt)) /\ gen,
   canvas        |-> IF Truthy(Trim(dt)) /\ ~gen THEN QRCode(dt) ELSE NoCanvas,
   copyArea      |-> Truthy(Trim(dt)),
   exportButtons |-> Truthy(Trim(dt))]

\* ------------------------------------------------------------ useDebounce
\* Initial debounced value: the value passed at mount.
UseDebounceInitial(value) == value

NoValue == << >>

DebounceTimers(ts) == {t \in ts : t.kind = "debounce"}

\* Variant: the effect has no cleanup, earlier timeouts stay scheduled.
UseDebounceEffect_NoCleanup(ts, value) ==
  ts \cup {[kind |-> "debounce", value |-> value, left |-> DebounceDelay]}

\* Effect of the hook on [value, delay]: the cleanup of the previous effect
\* clears its timeout, then one timeout is scheduled for the new value.
UseDebounceEffect(ts, value) ==
  (ts \ DebounceTimers(ts))
    \cup {[kind |-> "debounce", value |-> value, left |-> DebounceDelay]}

\* --------------------------------------------------- generation indicator
\* useState(() => {...}) at lines 16-27: a lazy state initializer.  React
\* evaluates it during the first render only.  With a non-empty debounced
\* text it calls setIsGenerating(true) and schedules the 200 ms timeout
\* that calls setIsGenerating(false).
GenerationInitializer(dt) ==
  IF Truthy(Trim(dt))
    THEN [isGenerating |-> TRUE,
          timers |-> {[kind |-> "generation", value |-> NoValue,
                       left |-> GenerationDelay]}]
    ELSE [isGenerating |-> FALSE, timers |-> {}]

\* On a re-render the initializer argument of useState is ignored.
GenerationOnRerender(gen, dt) == gen

\* ------------------------------------------------------------------- Init
\* State after the first render and its effects.
Init ==
  /\ inputText = EmptyStr
  /\ debouncedText = UseDebounceInitial(EmptyStr)
  /\ isGenerating = GenerationInitializer(debouncedText).isGenerating
  /\ timers = UseDebounceEffect(GenerationInitializer(debouncedText).timers,
                                inputText)
  /\ pubs = 0
  /\ typed = EmptyStr
  /\ inputBy = "mount"
  /\ superseded = FALSE
  /\ view = Render(inputText, isGenerating, debouncedText)
  /\ clipboard \in ClipboardStates
  /\ jobs = << >>
  /\ toasts = [n \in Notices |-> 0]
  /\ downloads = << >>
  /\ downloadClicks = 0

\* ---------------------------------------------------------- input handler
ExportUnchanged ==
  UNCHANGED << clipboard, jobs, toasts, downloads, downloadClicks >>

\* setInputText(v): same value bails out (no render, no effect); otherwise
\* the component re-renders and the debounce effect re-runs.
SetInputText(v) ==
  IF v = inputText
    THEN UNCHANGED << inputText, isGenerating, debouncedText, timers, pubs,
                      superseded, view >>
    ELSE /\ inputText' = v
         /\ superseded' = (DebounceTimers(timers) # {})
         /\ timers' = UseDebounceEffect(timers, v)
         /\ pubs' = 0
         /\ isGenerating' = GenerationOnRerender(isGenerating, debouncedText)
         /\ UNCHANGED debouncedText
         /\ view' = Render(v, isGenerating', debouncedText)

\* Variant: the handler stores the trimmed value.
handleInputChange_Trimmed(v) ==
  /\ v # inputText
  /\ SetInputText(Trim(v))
  /\ typed' = v
  /\ inputBy' = "change"
  /\ ExportUnchanged

\* onChange of the textarea: fires with the new full value.
handleInputChange(v) ==
  /\ v # inputText
  /\ SetInputText(v)
  /\ typed' = v
  /\ inputBy' = "change"
  /\ ExportUnchanged

InputChange == \E v \in Strings : handleInputChange(v)

Keys == {"Enter", "a"}

\* Variant: no preventDefault, so the default action of Enter still inserts
\* a line break (a whitespace character) into the cleared textarea.
handleKeyDown_NoPreventDefault(ctrlKey, key) ==
  /\ IF ctrlKey /\ key = "Enter"
       THEN /\ SetInputText(<< " " >>)
            /\ typed' = << " " >>
            /\ inputBy' = "shortcut"
       ELSE UNCHANGED << inputText, isGenerating, debouncedText, timers,
                         pubs, superseded, view, typed, inputBy >>
  /\ ExportUnchanged

\* onKeyDown of the textarea: Ctrl+Enter clears the input.
handleKeyDown(ctrlKey, key) ==
  /\ IF ctrlKey /\ key = "Enter"
       THEN /\ SetInputText(EmptyStr)
            /\ typed' = EmptyStr
            /\ inputBy' = "shortcut"
       ELSE UNCHANGED << inputText, isGenerating, debouncedText, timers,
                         pubs, superseded, view, typed, inputBy >>
  /\ ExportUnchanged

KeyDown == \E c \in BOOLEAN, k \in Keys : handleKeyDown(c, k)

\* onClick of the clear button, rendered only while inputText is truthy.
ClearButtonClick ==
  /\ view.clearButton
  /\ SetInputText(EmptyStr)
  /\ typed' = EmptyStr
  /\ inputBy' = "button"
  /\ ExportUnchanged

\* ------------------------------------------------------------------ timers
\* Time passes, at most up to the next due timeout.
Tick ==
  /\ timers # {}
  /\ \A t \in timers : t.left > 0
  /\ \E d \in {Quantum} \cup {t.left : t \in timers} :
       /\ d <= Quantum
       /\ \A t \in timers : d <= t.left
       /\ \/ d = Quantum
          \/ \E t \in timers : d = t.left
       /\ timers' = {[t EXCEPT !.left = @ - d] : t \in timers}
  /\ UNCHANGED << inputText, isGenerating, debouncedText, pubs, typed, inputBy,
                  superseded, view >>
  /\ ExportUnchanged

\* Callback of the debounce timeout: setDebouncedValue(value); Home then
\* re-renders with the new debounced text.
DebounceCallback(t) ==
  /\ debouncedText' = t.value
  /\ pubs' = pubs + 1
  /\ isGenerating' = GenerationOnRerender(isGenerating, debouncedText')

\* Callback of the generation timeout (lines 21-23): setIsGenerating(false).
GenerationCallback(t) ==
  /\ isGenerating' = FALSE
  /\ UNCHANGED << debouncedText, pubs >>

\* The callback of the due timeout t runs, then the component re-renders.
RunTimeout(t) ==
  /\ t \in timers
  /\ t.left = 0
  /\ timers' = timers \ {t}
  /\ IF t.kind = "debounce" THEN DebounceCallback(t) ELSE GenerationCallback(t)
  /\ view' = Render(inputText, isGenerating', debouncedText')
  /\ UNCHANGED << inputText, typed, inputBy, superseded >>
  /\ ExportUnchanged

\* A due timeout runs.
TimeoutFire == \E t \in timers : RunTimeout(t)

DebounceFire == \E t \in DebounceTimers(timers) : RunTimeout(t)

ViewUnchanged ==
  UNCHANGED << inputText, isGenerating, debouncedText, timers, pubs, typed,
               inputBy, superseded, view >>

\* ----------------------------------------------------------- export: copy
NoBlob == [type |-> "null"]

\* Export clicks so far: copy invocations (guarded or not) and downloads.
ExportCalls == Len(jobs) + toasts[NoticeEnterContent] + downloadClicks

\* canvas.toBlob(callback): a PNG blob of the canvas bitmap, or null when
\* the bitmap has no pixels.  The pixels are not kept: nothing reads them.
ToBlob(canvas) ==
  IF canvas.size > 0 THEN [type |-> "image/png"] ELSE NoBlob

NewJob(stage, blob) ==
  [stage |-> stage, blob |-> blob, writes |-> 0, notice |-> "none",
   unhandled |-> FALSE]

Toast(n) == toasts' = [toasts EXCEPT ![n] = @ + 1]

\* Variant: the guard tests debouncedText without trim().
HandleCopy_NoTrim ==
  /\ ExportCalls < MaxExports
  /\ IF ~Truthy(debouncedText)
       THEN /\ Toast(NoticeEnterContent)
            /\ UNCHANGED jobs
       ELSE /\ UNCHANGED toasts
            /\ IF view.canvas = NoCanvas
                 THEN jobs' = Append(jobs, NewJob("done", NoBlob))
                 ELSE jobs' = Append(jobs, NewJob("toBlob", ToBlob(view.canvas)))
  /\ ViewUnchanged
  /\ UNCHANGED << clipboard, downloads, downloadClicks >>

\* handleCopyQRCode, synchronous part (lines 44-56): the empty guard, the
\* canvas lookup through qrCodeRef, and the call of canvas.toBlob.  Nothing
\* in the try block throws synchronously, so the catch (and its notice) is
\* not entered here.  The handler is taken as callable in every state; on
\* the page its click targets (view.copyArea, view.exportButtons) exist
\* only while the debounced text is non-empty.
HandleCopy ==
  /\ ExportCalls < MaxExports
  /\ IF ~Truthy(Trim(debouncedText))
       THEN /\ Toast(NoticeEnterContent)
            /\ UNCHANGED jobs
       ELSE /\ UNCHANGED toasts
            /\ IF view.canvas = NoCanvas
                 THEN jobs' = Append(jobs, NewJob("done", NoBlob))
                 ELSE jobs' = Append(jobs, NewJob("toBlob", ToBlob(view.canvas)))
  /\ ViewUnchanged
  /\ UNCHANGED << clipboard, downloads, downloadClicks >>

\* The async callback handed to toBlob (lines 56-60), up to the await.
\* With no clipboard API the call itself throws inside the async function:
\* its promise rejects and nobody handles it.
ToBlobCallback ==
  /\ \E i \in 1..Len(jobs) :
       /\ jobs[i].stage = "toBlob"
       /\ jobs' = [jobs EXCEPT ![i] =
            IF @.blob = NoBlob
              THEN [@ EXCEPT !.stage = "done"]
              ELSE IF clipboard = "unsupported"
                THEN [@ EXCEPT !.stage = "done", !.unhandled = TRUE]
                ELSE [@ EXCEPT !.stage = "write", !.writes = @ + 1]]
  /\ ViewUnchanged
  /\ UNCHANGED << clipboard, toasts, downloads, downloadClicks >>

\* Variant: the success notice is left out.
ClipboardSettle_NoToast ==
  /\ \E i \in 1..Len(jobs) :
       /\ jobs[i].stage = "write"
       /\ jobs' = [jobs EXCEPT ![i] =
            [@ EXCEPT !.stage = "done", !.unhandled = (clipboard # "ok")]]
  /\ UNCHANGED toasts
  /\ ViewUnchanged
  /\ UNCHANGED << clipboard, downloads, downloadClicks >>

\* navigator.clipboard.write settles (lines 58-61): on success the success
\* notice is shown; on rejection the await throws inside the async callback,
\* outside the try of handleCopyQRCode, and the rejection is unhandled.
ClipboardSettle ==
  /\ \E i \in 1..Len(jobs) :
       /\ jobs[i].stage = "write"
       /\ IF clipboard = "ok"
            THEN /\ jobs' = [jobs EXCEPT ![i] =
                       [@ EXCEPT !.stage = "done", !.notice = NoticeCopied]]
                 /\ Toast(NoticeCopied)
            ELSE /\ jobs' = [jobs EXCEPT ![i] =
                       [@ EXCEPT !.stage = "done", !.unhandled = TRUE]]
                 /\ UNCHANGED toasts
  /\ ViewUnchanged
  /\ UNCHANGED << clipboard, downloads, downloadClicks >>

\* ------------------------------------------------------- export: download
\* canvas.toDataURL('image/png')
ToDataURL(canvas) == [scheme |-> "data", type |-> "image/png"]

\* Variant: the click handler raises the generation flag while it saves.
Download_SetsGenerating ==
  /\ view.exportButtons
  /\ ExportCalls < MaxExports
  /\ downloadClicks' = downloadClicks + 1
  /\ IF view.canvas # NoCanvas
       THEN downloads' = Append(downloads,
              [download |-> "qrcode.png", href |-> ToDataURL(view.canvas)])
       ELSE UNCHANGED downloads
  /\ isGenerating' = TRUE
  /\ view' = Render(inputText, TRUE, debouncedText)
  /\ UNCHANGED << inputText, debouncedText, timers, pubs, typed, inputBy,
                  superseded >>
  /\ UNCHANGED << clipboard, jobs, toasts >>

\* onClick of the download button (lines 202-211); the button exists only
\* in the export-button row.
Download ==
  /\ view.exportButtons
  /\ ExportCalls < MaxExports
  /\ downloadClicks' = downloadClicks + 1
  /\ IF view.canvas # NoCanvas
       THEN downloads' = Append(downloads,
              [download |-> "qrcode.png", href |-> ToDataURL(view.canvas)])
       ELSE UNCHANGED downloads
  /\ ViewUnchanged
  /\ UNCHANGED << clipboard, jobs, toasts >>

\* ------------------------------------------------------------------- Next
Next ==
  \/ InputChange
  \/ KeyDown
  \/ ClearButtonClick
  \/ Tick
  \/ TimeoutFire
  \/ HandleCopy
  \/ ToBlobCallback
  \/ ClipboardSettle
  \/ Download

Spec == Init /\ [][Next]_vars

\* The input handler and the debounce stage alone.  The export actions are
\* left out here: they read debouncedText and view only and write none of
\* the others (C9_ExportFrame).
NextInput ==
  \/ InputChange
  \/ KeyDown
  \/ ClearButtonClick
  \/ Tick
  \/ TimeoutFire

\* Time passes and a due timeout runs (the event loop keeps turning); user
\* events carry no fairness.
DebounceSpec ==
  /\ Init
  /\ [][NextInput]_vars
  /\ WF_vars(Tick)
  /\ WF_vars(TimeoutFire)

\* ================================================================ claims
NonEmpty(s) == Truthy(Trim(s))

DoneJobs == {i \in 1..Len(jobs) : jobs[i].stage = "done"}

\* C1: for every string s, once the user has set the input to s, either the
\* debounced text eventually equals s or the user changes the input again
\* first.
C1_DebouncedFollowsInput ==
  \A s \in Strings : (typed = s) ~> (debouncedText = s \/ typed # s)

\* A non-empty text was typed, the timeout ran, and it was published.
C1_Witness ==
  /\ typed # EmptyStr
  /\ inputBy = "change"
  /\ timers = {}
  /\ pubs = 1
  /\ debouncedText = typed

\* C2: single slot: at most one debounce timeout is pending and it carries
\* the current input text; since the last change of the input there is
\* either that pending timeout or exactly one publication, of the current
\* input text.  A superseded value is never published.
C2_SingleSlot ==
  /\ Cardinality(DebounceTimers(timers)) + pubs = 1
  /\ \A t \in DebounceTimers(timers) : t.value = inputText
  /\ pubs = 1 => debouncedText = inputText

\* A change arrived while a timeout was pending, and the final value has
\* been published since.
C2_Witness ==
  /\ superseded
  /\ timers = {}
  /\ pubs = 1
  /\ debouncedText = inputText
  /\ inputText # EmptyStr

\* C3: whenever the debounced text goes from empty/whitespace-only to
\* non-empty, the generation flag becomes true.
C3_FlagRaisedOnTransition ==
  [][(~NonEmpty(debouncedText) /\ NonEmpty(debouncedText')) => isGenerating']_vars

\* C4: a copy whose clipboard write cannot succeed ends with the fallback
\* notice and with no unhandled error.
C4_FallbackOnClipboardFailure ==
  \A i \in DoneJobs :
    (clipboard # "ok" /\ jobs[i].blob # NoBlob)
      => (toasts[NoticeCopyFailed] >= 1 /\ ~jobs[i].unhandled)

\* C5: a copy invoked while the debounced text is empty or whitespace-only
\* shows the 'enter content' notice once, starts no clipboard work, and
\* leaves every other part of the state as it was.
C5_GuardedCopy ==
  [][(HandleCopy /\ ~NonEmpty(debouncedText))
       => /\ toasts' = [toasts EXCEPT ![NoticeEnterContent] = @ + 1]
          /\ UNCHANGED << jobs, downloads, downloadClicks, clipboard,
                          inputText, isGenerating, debouncedText, timers,
                          view >>]_vars

\* The guard fired on a whitespace-only debounced text.
C5_Witness ==
  /\ toasts[NoticeEnterContent] >= 1
  /\ debouncedText # EmptyStr
  /\ ~NonEmpty(debouncedText)
  /\ jobs = << >>

\* C6: with a working clipboard, every copy that passed the guard issues at
\* most one write, shows the success notice only after its write, and once
\* finished has issued exactly one write of a PNG blob and shown exactly
\* one success notice; no other copy notice is shown.
C6_OneWriteOneNotice ==
  clipboard = "ok" =>
    /\ \A i \in 1..Len(jobs) :
         /\ jobs[i].writes <= 1
         /\ jobs[i].notice = NoticeCopied => jobs[i].writes = 1
         /\ jobs[i].stage = "done" =>
              /\ jobs[i].writes = 1
              /\ jobs[i].blob.type = "image/png"
              /\ jobs[i].notice = NoticeCopied
              /\ ~jobs[i].unhandled
    /\ toasts[NoticeCopied] =
         Cardinality({i \in 1..Len(jobs) : jobs[i].notice = NoticeCopied})
    /\ toasts[NoticeCopyFailed] = 0

\* A copy ran to its end on a working clipboard.
C6_Witness ==
  /\ clipboard = "ok"
  /\ DoneJobs # {}
  /\ toasts[NoticeCopied] >= 1

\* C7: while the debounced text is empty or whitespace-only, the placeholder
\* is shown, there is no spinner and no canvas, and neither the copy area
\* nor the export buttons are rendered.
C7_EmptyShowsPlaceholder ==
  ~NonEmpty(debouncedText) =>
    /\ view.placeholder
    /\ ~view.spinner
    /\ view.canvas = NoCanvas
    /\ ~view.copyArea
    /\ ~view.exportButtons

\* A whitespace-only text was published.
C7_Witness ==
  /\ debouncedText # EmptyStr
  /\ ~NonEmpty(debouncedText)
  /\ pubs = 1
  /\ view.placeholder

\* C8: the clear button and Ctrl+Enter set the input text to empty at once
\* and leave the debounced text and the QR display area as they are; after
\* a clear, no step but the debounce timeout changes the debounced text or
\* the canvas, and that timeout shows the placeholder and removes the
\* canvas.
C8_Clear ==
  [][/\ (ClearButtonClick \/ handleKeyDown(TRUE, "Enter"))
          => /\ inputText' = EmptyStr
             /\ debouncedText' = debouncedText
             /\ view'.canvas = view.canvas
             /\ view'.placeholder = view.placeholder
             /\ view'.exportButtons = view.exportButtons
     /\ (DebounceFire /\ inputBy \in {"shortcut", "button"})
          => /\ view'.placeholder
             /\ view'.canvas = NoCanvas
             /\ debouncedText' = EmptyStr
     /\ (inputBy \in {"shortcut", "button"} /\ ~DebounceFire)
          => /\ debouncedText' = debouncedText
             /\ view'.canvas = view.canvas]_vars

\* Right after a clear: input empty, the QR code still displayed.
C8_Witness ==
  /\ inputBy \in {"shortcut", "button"}
  /\ inputText = EmptyStr
  /\ timers # {}
  /\ view.canvas # NoCanvas

\* C9: no step of a copy or of a download changes the input text, the
\* debounced text, the generation flag, the rendered view or the pending
\* debounce timeout.
C9_ExportFrame ==
  [][(HandleCopy \/ ToBlobCallback \/ ClipboardSettle \/ Download)
       => UNCHANGED << inputText, debouncedText, isGenerating, view, timers >>]_vars

\* A copy finished and a download happened while a timeout was pending.
C9_Witness ==
  /\ DoneJobs # {}
  /\ Len(downloads) >= 1
  /\ timers # {}

\* C10: every click on the download button has produced exactly one anchor
\* click, each with the file name "qrcode.png".
C10_OneDownloadPerClick ==
  /\ Len(downloads) = downloadClicks
  /\ \A i \in 1..Len(downloads) : downloads[i].download = "qrcode.png"

\* The download button was clicked.
C10_Witness ==
  /\ downloadClicks >= 1
  /\ Len(downloads) >= 1

====
